---------------------------- MODULE Spec2Model ----------------------------
(***************************************************************************)
(* Idea-Box-API (src/main.go): ten gin handlers over two GORM/SQLite       *)
(* tables, boxes and ideas.                                                *)
(*                                                                         *)
(* The store is the two tables plus SQLite's per-table AUTOINCREMENT       *)
(* sequence.  Each handler is translated statement by statement from       *)
(* main.go; the GORM calls are the operators First.., Create.., Updates..,  *)
(* Delete.. below.                                                         *)
(*                                                                         *)
(* Three specifications share the handlers' storage statements:            *)
(*   Spec       one request at a time, every storage statement succeeds    *)
(*   FaultSpec  one request at a time; a Find, Create, Updates or Delete   *)
(*              may return an error (result.Error != nil) and then changes *)
(*              nothing.  An error of db.First is not told apart from a    *)
(*              missing row by any handler (both answer 404).              *)
(*   ConcSpec   several requests in flight, interleaved statement by       *)
(*              statement (gin serves each request on its own goroutine;   *)
(*              main.go opens no transaction and takes no lock)            *)
(*                                                                         *)
(* Facts about the libraries the handlers call:                            *)
(*   - binding:"required" rejects a missing or empty Title (and a body     *)
(*     that is not JSON); the request title "" stands for all of these.    *)
(*   - db.Model(&row).Updates(struct) writes only the non-zero fields of   *)
(*     the struct, and copies the written fields into row.                 *)
(*   - the uint primary key ID is declared INTEGER PRIMARY KEY             *)
(*     AUTOINCREMENT: a new row's id is one more than the largest id the   *)
(*     table ever held.                                                    *)
(*   - sqlite.Open("idea-box.db") sets no foreign_keys pragma, so SQLite   *)
(*     does not enforce ideas.box_id -> boxes.id.                          *)
(*   - neither struct has a DeletedAt field: Delete removes the rows.      *)
(***************************************************************************)
EXTENDS Integers, FiniteSets, TLC

\* ------------------------------------------------------------- bounds
\* Largest box id / idea id the sequences may hand out.
MaxBoxID == 2
MaxIdeaID == 2
\* ConcSpec: requests that may be started in one behaviour.
MaxRequests == 3

BoxIDs == 1..MaxBoxID
IdeaIDs == 1..MaxIdeaID

\* Non-empty titles; "" is a title that fails binding:"required".
Titles == {"a", "b"}
ReqTitles == Titles \cup {""}
\* description is optional: "" is an omitted or empty description.
Descriptions == {"", "x"}

\* ConcSpec: the goroutines serving requests.
Workers == {1, 2}

VARIABLES
    boxes,      \* table boxes: id -> [Title, Description]
    ideas,      \* table ideas: id -> [Title, Description, BoxID]
    boxSeq,     \* sqlite_sequence of boxes: largest id ever inserted
    ideaSeq,    \* sqlite_sequence of ideas
    resp,       \* the last completed request and its response
    deleted,    \* history: box ids a deleteBox answered 204 for
    under,      \* history: idea id -> box id a createBoxIdea answered 201 for
    removed,    \* history: idea ids a deleteBoxIdea answered 204 for
    cascaded,   \* history: idea ids whose box a deleteBox answered 204 for
    inflight,   \* ConcSpec: worker -> the request it is serving
    started     \* ConcSpec: number of requests started

store == <<boxes, ideas, boxSeq, ideaSeq>>
hist == <<deleted, under, removed, cascaded>>
conc == <<inflight, started>>
vars == <<boxes, ideas, boxSeq, ideaSeq, resp, deleted, under, removed,
          cascaded, inflight, started>>

\* ------------------------------------------------------------- tables
Put(f, k, v) == [x \in DOMAIN f \cup {k} |-> IF x = k THEN v ELSE f[x]]
Drop(f, S) == [x \in DOMAIN f \ S |-> f[x]]
Empty == [x \in {} |-> 0]

\* struct Box / struct Idea as stored rows
BoxRow(t, d) == [Title |-> t, Description |-> d]
\* (variant: the idea is built without BoxID, which stays the zero value)
IdeaRowNoBox(t, d, b) == [Title |-> t, Description |-> d, BoxID |-> 0]
IdeaRow(t, d, b) == [Title |-> t, Description |-> d, BoxID |-> b]

\* ------------------------------------------------------------- GORM statements
\* (variant: Title without binding:"required")
ShouldBindJSONAny(title) == TRUE
\* c.ShouldBindJSON(&request) with binding:"required" on Title
ShouldBindJSON(title) == title # ""

\* db.First(&box, "id = ?", id): found or ErrRecordNotFound
FirstBox(bs, id) == id \in DOMAIN bs

\* (variant: the lookup by "id = ?" alone)
FirstIdeaAnyBox(is, ideaID, boxID) == ideaID \in DOMAIN is
\* db.Where("id = ? AND box_id = ?", ideaID, boxID).First(&idea)
FirstIdea(is, ideaID, boxID) ==
    /\ ideaID \in DOMAIN is
    /\ is[ideaID].BoxID = boxID

\* (variant: a key without AUTOINCREMENT, one more than the largest id the
\* table holds now)
NextIDReuse(rows, seq) ==
    IF DOMAIN rows = {} THEN 1
    ELSE (CHOOSE m \in DOMAIN rows : \A x \in DOMAIN rows : x <= m) + 1
\* the id db.Create gives a row of a table whose sequence is seq
NextID(rows, seq) == seq + 1

\* (variant: the query without its box_id condition)
IdeasOfAny(is, boxID) == DOMAIN is
\* db.Where("box_id = ?", boxID).Find(&ideas), also Preload("Ideas")
IdeasOf(is, boxID) == {i \in DOMAIN is : is[i].BoxID = boxID}

\* (variant: deleteBox without its line 208)
DeleteIdeasWhereNone(is, boxID) == is
\* db.Where("box_id = ?", id).Delete(&Idea{})
DeleteIdeasWhere(is, boxID) == Drop(is, IdeasOf(is, boxID))

\* db.Delete(&box): the row with box's primary key
DeleteBoxRow(bs, id) == Drop(bs, {id})

\* db.Delete(&idea)
DeleteIdeaRow(is, id) == Drop(is, {id})

\* (variant: every field written, as Select("*") or a map would)
UpdatesAll(row, title, description) ==
    [row EXCEPT !.Title = title, !.Description = description]
\* db.Model(&row).Updates(XRequest{Title, Description}): non-zero fields only.
\* The result is row as it is afterwards, in memory and in the table.
Updates(row, title, description) ==
    [row EXCEPT !.Title = IF title # "" THEN title ELSE @,
                !.Description = IF description # "" THEN description ELSE @]

\* ------------------------------------------------------------- responses
IdeaResponse(id, row) ==
    [id |-> id, title |-> row.Title, description |-> row.Description]

IdeaResponses(is, S) == {IdeaResponse(i, is[i]) : i \in S}

BoxResponse(id, row, ideaResponses) ==
    [id |-> id, title |-> row.Title, description |-> row.Description,
     ideas |-> ideaResponses]

\* a response body: what kind of JSON value, and the boxes or ideas in it
NoBody == [kind |-> "none", boxes |-> {}, ideas |-> {}]
BoxBody(b) == [kind |-> "box", boxes |-> {b}, ideas |-> {}]
BoxesBody(bsr) == [kind |-> "boxes", boxes |-> bsr, ideas |-> {}]
IdeaBody(i) == [kind |-> "idea", boxes |-> {}, ideas |-> {i}]
IdeasBody(isr) == [kind |-> "ideas", boxes |-> {}, ideas |-> isr]

Response(op, box, idea, title, description, status, error, body) ==
    [op |-> op, box |-> box, idea |-> idea, title |-> title,
     description |-> description, status |-> status, error |-> error,
     body |-> body]

NoResponse == Response("none", 0, 0, "", "", 0, "", NoBody)

\* the error messages of gin.H{"error": ...}
BoxNotFound == "box not found"
IdeaNotFound == "idea not found"
BindError == "Title is required"
StorageError == "storage error"

\* a goroutine's request: the handler, the statement it is about to run, the
\* path parameters, the bound request, and the row First loaded (var box /
\* var idea of the handler)
NoRow == [Title |-> "", Description |-> ""]
Request(op, pc, box, idea, title, description, row) ==
    [op |-> op, pc |-> pc, box |-> box, idea |-> idea, title |-> title,
     description |-> description, row |-> row]
Idle == Request("idle", "idle", 0, 0, "", "", NoRow)

\* the ideas created under box b whose delete, or whose box's delete, has
\* not been answered 204 since
Live(b) == {i \in DOMAIN under : under[i] = b /\ i \notin removed \cup cascaded}

\* history after createBoxIdea answered 201 with idea id under box b
NoteCreated(id, b) ==
    /\ under' = Put(under, id, b)
    /\ removed' = removed \ {id}
    /\ cascaded' = cascaded \ {id}
    /\ UNCHANGED deleted

\* history after deleteBox answered 204 for box b
NoteBoxDeleted(b) ==
    /\ deleted' = deleted \cup {b}
    /\ cascaded' = cascaded \cup Live(b)
    /\ UNCHANGED <<under, removed>>

\* history after deleteBoxIdea answered 204 for idea id
NoteIdeaDeleted(id) ==
    /\ removed' = removed \cup {id}
    /\ UNCHANGED <<deleted, under, cascaded>>

Init ==
    /\ boxes = Empty
    /\ ideas = Empty
    /\ boxSeq = 0
    /\ ideaSeq = 0
    /\ resp = NoResponse
    /\ deleted = {}
    /\ under = Empty
    /\ removed = {}
    /\ cascaded = {}
    /\ inflight = [w \in Workers |-> Idle]
    /\ started = 0


\* ------------------------------------------------------------- handlers
\* One request served from start to finish.  A parameter fail.. says that
\* the storage statement it names returns result.Error != nil; a failed
\* statement changes no row.

\* func getBoxes
getBoxes(failFind) ==
    /\ resp' =
        IF failFind
        THEN Response("getBoxes", 0, 0, "", "", 400, StorageError, NoBody)
        ELSE Response("getBoxes", 0, 0, "", "", 200, "",
                 BoxesBody({BoxResponse(b, boxes[b],
                                IdeaResponses(ideas, IdeasOf(ideas, b)))
                            : b \in DOMAIN boxes}))
    /\ UNCHANGED <<store, hist, conc>>

\* func getBox
getBox(id) ==
    /\ resp' =
        IF ~FirstBox(boxes, id)
        THEN Response("getBox", id, 0, "", "", 404, BoxNotFound, NoBody)
        ELSE Response("getBox", id, 0, "", "", 200, "",
                 BoxBody(BoxResponse(id, boxes[id],
                             IdeaResponses(ideas, IdeasOf(ideas, id)))))
    /\ UNCHANGED <<store, hist, conc>>

\* func createBox
createBox(title, description, failCreate) ==
    LET id == NextID(boxes, boxSeq)
        box == BoxRow(title, description)
    IN  /\ ShouldBindJSON(title) => id <= MaxBoxID
        /\ IF ~ShouldBindJSON(title)
           THEN /\ resp' = Response("createBox", 0, 0, title, description,
                               400, BindError, NoBody)
                /\ UNCHANGED store
           ELSE IF failCreate
           THEN /\ resp' = Response("createBox", 0, 0, title, description,
                               400, StorageError, NoBody)
                /\ UNCHANGED store
           ELSE /\ boxes' = Put(boxes, id, box)
                /\ boxSeq' = IF id > boxSeq THEN id ELSE boxSeq
                /\ resp' = Response("createBox", 0, 0, title, description,
                               201, "", BoxBody(BoxResponse(id, box, {})))
                /\ UNCHANGED <<ideas, ideaSeq>>
        /\ UNCHANGED <<hist, conc>>

\* (variant: updateBox with db.First before c.ShouldBindJSON)
updateBoxLookupFirst(id, title, description, failUpdates) ==
    /\ IF ~FirstBox(boxes, id)
       THEN /\ resp' = Response("updateBox", id, 0, title, description,
                           404, BoxNotFound, NoBody)
            /\ UNCHANGED store
       ELSE IF ~ShouldBindJSON(title) \/ failUpdates
       THEN /\ resp' = Response("updateBox", id, 0, title, description,
                           400, BindError, NoBody)
            /\ UNCHANGED store
       ELSE LET box == Updates(boxes[id], title, description)
            IN  /\ boxes' = Put(boxes, id, box)
                /\ resp' = Response("updateBox", id, 0, title, description,
                               200, "", BoxBody(BoxResponse(id, box, {})))
                /\ UNCHANGED <<ideas, boxSeq, ideaSeq>>
    /\ UNCHANGED <<hist, conc>>

\* func updateBox
updateBox(id, title, description, failUpdates) ==
    /\ IF ~ShouldBindJSON(title)
       THEN /\ resp' = Response("updateBox", id, 0, title, description,
                           400, BindError, NoBody)
            /\ UNCHANGED store
       ELSE IF ~FirstBox(boxes, id)
       THEN /\ resp' = Response("updateBox", id, 0, title, description,
                           404, BoxNotFound, NoBody)
            /\ UNCHANGED store
       ELSE IF failUpdates
       THEN /\ resp' = Response("updateBox", id, 0, title, description,
                           400, StorageError, NoBody)
            /\ UNCHANGED store
       ELSE LET box == Updates(boxes[id], title, description)
            IN  /\ boxes' = Put(boxes, id, box)
                /\ resp' = Response("updateBox", id, 0, title, description,
                               200, "", BoxBody(BoxResponse(id, box, {})))
                /\ UNCHANGED <<ideas, boxSeq, ideaSeq>>
    /\ UNCHANGED <<hist, conc>>

\* func deleteBox
deleteBox(id, failDeleteIdeas, failDelete) ==
    /\ IF ~FirstBox(boxes, id)
       THEN /\ resp' = Response("deleteBox", id, 0, "", "",
                           404, BoxNotFound, NoBody)
            /\ UNCHANGED <<store, hist>>
       ELSE /\ ideas' = IF failDeleteIdeas THEN ideas
                        ELSE DeleteIdeasWhere(ideas, id)
            /\ IF failDelete
               THEN /\ resp' = Response("deleteBox", id, 0, "", "",
                                   400, StorageError, NoBody)
                    /\ UNCHANGED <<boxes, hist>>
               ELSE /\ boxes' = DeleteBoxRow(boxes, id)
                    /\ resp' = Response("deleteBox", id, 0, "", "",
                                   204, "", NoBody)
                    /\ NoteBoxDeleted(id)
            /\ UNCHANGED <<boxSeq, ideaSeq>>
    /\ UNCHANGED conc

\* func getBoxIdeas
getBoxIdeas(boxID, failFind) ==
    /\ resp' =
        IF ~FirstBox(boxes, boxID)
        THEN Response("getBoxIdeas", boxID, 0, "", "", 404, BoxNotFound, NoBody)
        ELSE IF failFind
        THEN Response("getBoxIdeas", boxID, 0, "", "", 400, StorageError, NoBody)
        ELSE Response("getBoxIdeas", boxID, 0, "", "", 200, "",
                 IdeasBody(IdeaResponses(ideas, IdeasOf(ideas, boxID))))
    /\ UNCHANGED <<store, hist, conc>>

\* func getBoxIdea
getBoxIdea(boxID, ideaID) ==
    /\ resp' =
        IF ~FirstBox(boxes, boxID)
        THEN Response("getBoxIdea", boxID, ideaID, "", "",
                 404, BoxNotFound, NoBody)
        ELSE IF ~FirstIdea(ideas, ideaID, boxID)
        THEN Response("getBoxIdea", boxID, ideaID, "", "",
                 404, IdeaNotFound, NoBody)
        ELSE Response("getBoxIdea", boxID, ideaID, "", "", 200, "",
                 IdeaBody(IdeaResponse(ideaID, ideas[ideaID])))
    /\ UNCHANGED <<store, hist, conc>>

\* func createBoxIdea
createBoxIdea(boxID, title, description, failCreate) ==
    LET id == NextID(ideas, ideaSeq)
        idea == IdeaRow(title, description, boxID)
    IN  /\ (ShouldBindJSON(title) /\ FirstBox(boxes, boxID)) => id <= MaxIdeaID
        /\ IF ~ShouldBindJSON(title)
           THEN /\ resp' = Response("createBoxIdea", boxID, 0, title,
                               description, 400, BindError, NoBody)
                /\ UNCHANGED <<store, hist>>
           ELSE IF ~FirstBox(boxes, boxID)
           THEN /\ resp' = Response("createBoxIdea", boxID, 0, title,
                               description, 404, BoxNotFound, NoBody)
                /\ UNCHANGED <<store, hist>>
           ELSE IF failCreate
           THEN /\ resp' = Response("createBoxIdea", boxID, 0, title,
                               description, 400, StorageError, NoBody)
                /\ UNCHANGED <<store, hist>>
           ELSE /\ ideas' = Put(ideas, id, idea)
                /\ ideaSeq' = IF id > ideaSeq THEN id ELSE ideaSeq
                /\ resp' = Response("createBoxIdea", boxID, 0, title,
                               description, 201, "",
                               IdeaBody(IdeaResponse(id, idea)))
                /\ NoteCreated(id, boxID)
                /\ UNCHANGED <<boxes, boxSeq>>
        /\ UNCHANGED conc

\* func updateBoxIdea
updateBoxIdea(boxID, ideaID, title, description, failUpdates) ==
    /\ IF ~ShouldBindJSON(title)
       THEN /\ resp' = Response("updateBoxIdea", boxID, ideaID, title,
                           description, 400, BindError, NoBody)
            /\ UNCHANGED store
       ELSE IF ~FirstBox(boxes, boxID)
       THEN /\ resp' = Response("updateBoxIdea", boxID, ideaID, title,
                           description, 404, BoxNotFound, NoBody)
            /\ UNCHANGED store
       ELSE IF ~FirstIdea(ideas, ideaID, boxID)
       THEN /\ resp' = Response("updateBoxIdea", boxID, ideaID, title,
                           description, 404, IdeaNotFound, NoBody)
            /\ UNCHANGED store
       ELSE IF failUpdates
       THEN /\ resp' = Response("updateBoxIdea", boxID, ideaID, title,
                           description, 400, StorageError, NoBody)
            /\ UNCHANGED store
       ELSE LET idea == Updates(ideas[ideaID], title, description)
            IN  /\ ideas' = Put(ideas, ideaID, idea)
                /\ resp' = Response("updateBoxIdea", boxID, ideaID, title,
                               description, 200, "",
                               IdeaBody(IdeaResponse(ideaID, idea)))
                /\ UNCHANGED <<boxes, boxSeq, ideaSeq>>
    /\ UNCHANGED <<hist, conc>>

\* func deleteBoxIdea
deleteBoxIdea(boxID, ideaID, failDelete) ==
    /\ IF ~FirstBox(boxes, boxID)
       THEN /\ resp' = Response("deleteBoxIdea", boxID, ideaID, "", "",
                           404, BoxNotFound, NoBody)
            /\ UNCHANGED <<store, hist>>
       ELSE IF ~FirstIdea(ideas, ideaID, boxID)
       THEN /\ resp' = Response("deleteBoxIdea", boxID, ideaID, "", "",
                           404, IdeaNotFound, NoBody)
            /\ UNCHANGED <<store, hist>>
       ELSE IF failDelete
       THEN /\ resp' = Response("deleteBoxIdea", boxID, ideaID, "", "",
                           400, StorageError, NoBody)
            /\ UNCHANGED <<store, hist>>
       ELSE /\ ideas' = DeleteIdeaRow(ideas, ideaID)
            /\ resp' = Response("deleteBoxIdea", boxID, ideaID, "", "",
                           204, "", NoBody)
            /\ NoteIdeaDeleted(ideaID)
            /\ UNCHANGED <<boxes, boxSeq, ideaSeq>>
    /\ UNCHANGED conc

\* ------------------------------------------------------------- requests
\* The router (main.go, func main): any request, with any path
\* parameters and body.  F is the set of outcomes a storage statement
\* may have in the specification: {FALSE} succeeds, BOOLEAN may fail.
GetBoxes(F) == \E f \in F : getBoxes(f)
GetBox == \E id \in BoxIDs : getBox(id)
CreateBox(F) ==
    \E t \in ReqTitles, d \in Descriptions, f \in F : createBox(t, d, f)
UpdateBox(F) ==
    \E id \in BoxIDs, t \in ReqTitles, d \in Descriptions, f \in F :
        updateBox(id, t, d, f)
DeleteBox(F) == \E id \in BoxIDs, f1 \in F, f2 \in F : deleteBox(id, f1, f2)
GetBoxIdeas(F) == \E id \in BoxIDs, f \in F : getBoxIdeas(id, f)
GetBoxIdea == \E id \in BoxIDs, i \in IdeaIDs : getBoxIdea(id, i)
CreateBoxIdea(F) ==
    \E id \in BoxIDs, t \in ReqTitles, d \in Descriptions, f \in F :
        createBoxIdea(id, t, d, f)
UpdateBoxIdea(F) ==
    \E id \in BoxIDs, i \in IdeaIDs, t \in ReqTitles, d \in Descriptions,
       f \in F : updateBoxIdea(id, i, t, d, f)
DeleteBoxIdea(F) ==
    \E id \in BoxIDs, i \in IdeaIDs, f \in F : deleteBoxIdea(id, i, f)

Succeeds == {FALSE}
MayFail == BOOLEAN

Next ==
    \/ GetBoxes(Succeeds)
    \/ GetBox
    \/ CreateBox(Succeeds)
    \/ UpdateBox(Succeeds)
    \/ DeleteBox(Succeeds)
    \/ GetBoxIdeas(Succeeds)
    \/ GetBoxIdea
    \/ CreateBoxIdea(Succeeds)
    \/ UpdateBoxIdea(Succeeds)
    \/ DeleteBoxIdea(Succeeds)

Spec == Init /\ [][Next]_vars

FaultNext ==
    \/ GetBoxes(MayFail)
    \/ GetBox
    \/ CreateBox(MayFail)
    \/ UpdateBox(MayFail)
    \/ DeleteBox(MayFail)
    \/ GetBoxIdeas(MayFail)
    \/ GetBoxIdea
    \/ CreateBoxIdea(MayFail)
    \/ UpdateBoxIdea(MayFail)
    \/ DeleteBoxIdea(MayFail)

FaultSpec == Init /\ [][FaultNext]_vars


\* ------------------------------------------------------------- concurrent requests
\* The handlers that write, one storage statement per step.  Each statement
\* is atomic (SQLite runs it in its own implicit transaction); nothing in
\* main.go makes two statements of one handler atomic.  inflight[w].pc names
\* the next statement of the handler worker w runs.

Reply(w, status, error, body) ==
    /\ resp' = Response(inflight[w].op, inflight[w].box, inflight[w].idea,
                   inflight[w].title, inflight[w].description,
                   status, error, body)
    /\ inflight' = [inflight EXCEPT ![w] = Idle]

Goto(w, pc, row) ==
    /\ inflight' = [inflight EXCEPT ![w].pc = pc, ![w].row = row]
    /\ UNCHANGED resp

BindsJSON == {"createBox", "updateBox", "createBoxIdea", "updateBoxIdea"}
TakesIdea == {"updateBoxIdea", "deleteBoxIdea"}
Writers == BindsJSON \cup {"deleteBox", "deleteBoxIdea"}

\* gin calls the handler; c.Param, c.ShouldBindJSON
Begin(w) ==
    /\ inflight[w].op = "idle"
    /\ started < MaxRequests
    /\ started' = started + 1
    /\ \E op \in Writers, id \in BoxIDs, i \in IdeaIDs,
          t \in ReqTitles, d \in Descriptions :
        /\ op = "createBox" => id = 1
        /\ op \notin TakesIdea => i = 1
        /\ op \notin BindsJSON => (t = "a" /\ d = "")
        /\ LET box == IF op = "createBox" THEN 0 ELSE id
               idea == IF op \in TakesIdea THEN i ELSE 0
               title == IF op \in BindsJSON THEN t ELSE ""
               description == IF op \in BindsJSON THEN d ELSE ""
           IN  IF op \in BindsJSON /\ ~ShouldBindJSON(title)
               THEN /\ resp' = Response(op, box, idea, title, description,
                                   400, BindError, NoBody)
                    /\ UNCHANGED inflight
               ELSE /\ inflight' = [inflight EXCEPT ![w] =
                          Request(op, IF op = "createBox" THEN "create"
                                      ELSE "firstBox",
                                  box, idea, title, description, NoRow)]
                    /\ UNCHANGED resp
    /\ UNCHANGED <<store, hist>>

\* db.First(&box, "id = ?", id) of updateBox, deleteBox, createBoxIdea,
\* updateBoxIdea, deleteBoxIdea
StepFirstBox(w) ==
    LET r == inflight[w] IN
    /\ r.pc = "firstBox"
    /\ IF ~FirstBox(boxes, r.box)
       THEN Reply(w, 404, BoxNotFound, NoBody)
       ELSE Goto(w, CASE r.op = "updateBox" -> "updates"
                      [] r.op = "deleteBox" -> "deleteIdeas"
                      [] r.op = "createBoxIdea" -> "create"
                      [] OTHER -> "firstIdea",
                 IF r.op = "updateBox" THEN boxes[r.box] ELSE NoRow)
    /\ UNCHANGED <<store, hist, started>>

\* db.Where("id = ? AND box_id = ?", ideaID, boxID).First(&idea) of
\* updateBoxIdea, deleteBoxIdea
StepFirstIdea(w) ==
    LET r == inflight[w] IN
    /\ r.pc = "firstIdea"
    /\ IF ~FirstIdea(ideas, r.idea, r.box)
       THEN Reply(w, 404, IdeaNotFound, NoBody)
       ELSE Goto(w, IF r.op = "updateBoxIdea" THEN "updates" ELSE "delete",
                 IF r.op = "updateBoxIdea"
                 THEN [Title |-> ideas[r.idea].Title,
                       Description |-> ideas[r.idea].Description]
                 ELSE NoRow)
    /\ UNCHANGED <<store, hist, started>>

\* db.Create(&box) of createBox, db.Create(&idea) of createBoxIdea.  The
\* idea's BoxID is int(box.ID) of the box First loaded; no foreign key is
\* enforced on the insert.
StepCreate(w) ==
    LET r == inflight[w] IN
    /\ r.pc = "create"
    /\ IF r.op = "createBox"
       THEN LET id == NextID(boxes, boxSeq)
                box == BoxRow(r.title, r.description)
            IN  /\ id <= MaxBoxID
                /\ boxes' = Put(boxes, id, box)
                /\ boxSeq' = IF id > boxSeq THEN id ELSE boxSeq
                /\ Reply(w, 201, "", BoxBody(BoxResponse(id, box, {})))
                /\ UNCHANGED <<ideas, ideaSeq, hist>>
       ELSE LET id == NextID(ideas, ideaSeq)
                idea == IdeaRow(r.title, r.description, r.box)
            IN  /\ id <= MaxIdeaID
                /\ ideas' = Put(ideas, id, idea)
                /\ ideaSeq' = IF id > ideaSeq THEN id ELSE ideaSeq
                /\ Reply(w, 201, "", IdeaBody(IdeaResponse(id, idea)))
                /\ NoteCreated(id, r.box)
                /\ UNCHANGED <<boxes, boxSeq>>
    /\ UNCHANGED started

\* db.Model(&box).Updates(..) of updateBox, db.Model(&idea).Updates(..) of
\* updateBoxIdea: UPDATE .. WHERE id = <primary key of the loaded row>; a
\* row deleted since First is no error (no row matches)
StepUpdates(w) ==
    LET r == inflight[w]
        row == Updates(r.row, r.title, r.description)
    IN
    /\ r.pc = "updates"
    /\ IF r.op = "updateBox"
       THEN /\ boxes' = IF r.box \in DOMAIN boxes
                        THEN Put(boxes, r.box,
                                 Updates(boxes[r.box], r.title, r.description))
                        ELSE boxes
            /\ Reply(w, 200, "", BoxBody(BoxResponse(r.box, row, {})))
            /\ UNCHANGED <<ideas, boxSeq, ideaSeq>>
       ELSE /\ ideas' = IF r.idea \in DOMAIN ideas
                        THEN Put(ideas, r.idea,
                                 Updates(ideas[r.idea], r.title, r.description))
                        ELSE ideas
            /\ Reply(w, 200, "", IdeaBody(IdeaResponse(r.idea, row)))
            /\ UNCHANGED <<boxes, boxSeq, ideaSeq>>
    /\ UNCHANGED <<hist, started>>

\* db.Where("box_id = ?", id).Delete(&Idea{}) of deleteBox
StepDeleteIdeas(w) ==
    LET r == inflight[w] IN
    /\ r.pc = "deleteIdeas"
    /\ ideas' = DeleteIdeasWhere(ideas, r.box)
    /\ Goto(w, "delete", NoRow)
    /\ UNCHANGED <<boxes, boxSeq, ideaSeq, hist, started>>

\* db.Delete(&box) of deleteBox, db.Delete(&idea) of deleteBoxIdea
StepDelete(w) ==
    LET r == inflight[w] IN
    /\ r.pc = "delete"
    /\ IF r.op = "deleteBox"
       THEN /\ boxes' = DeleteBoxRow(boxes, r.box)
            /\ NoteBoxDeleted(r.box)
            /\ UNCHANGED <<ideas, boxSeq, ideaSeq>>
       ELSE /\ ideas' = DeleteIdeaRow(ideas, r.idea)
            /\ NoteIdeaDeleted(r.idea)
            /\ UNCHANGED <<boxes, boxSeq, ideaSeq>>
    /\ Reply(w, 204, "", NoBody)
    /\ UNCHANGED started

ConcNext ==
    \E w \in Workers :
        \/ Begin(w)
        \/ StepFirstBox(w)
        \/ StepFirstIdea(w)
        \/ StepCreate(w)
        \/ StepUpdates(w)
        \/ StepDeleteIdeas(w)
        \/ StepDelete(w)

ConcSpec == Init /\ [][ConcNext]_vars


\* ------------------------------------------------------------- properties

\* C1: in every reachable state, also between the storage statements of
\* concurrently served requests, every stored idea's BoxID is the id of a
\* stored box.
NoOrphanIdea == \A i \in DOMAIN ideas : ideas[i].BoxID \in DOMAIN boxes

\* C2: when deleteBox(B) has answered 204, no box B and no idea with BoxID B
\* is stored, and the request served next, if it is getBox(B) or
\* getBoxIdea(B, i), answers 404.
DeleteBoxCascades ==
    /\ []((resp.op = "deleteBox" /\ resp.status = 204) =>
            /\ resp.box \notin DOMAIN boxes
            /\ \A i \in DOMAIN ideas : ideas[i].BoxID # resp.box)
    /\ [][(/\ resp.op = "deleteBox"
           /\ resp.status = 204
           /\ resp'.op \in {"getBox", "getBoxIdea"}
           /\ resp'.box = resp.box) => resp'.status = 404]_vars

\* a deleteBox answered 204 for a box that had an idea when it was deleted
DeleteBoxCascadesWitness ==
    /\ resp.op = "deleteBox"
    /\ resp.status = 204
    /\ \E i \in cascaded : under[i] = resp.box

\* C3: getBox of a stored box answers 200 with the box's stored title and
\* description and exactly the ideas created under it and not deleted
\* since, each with its stored title and description.
GetBoxReturnsItsIdeas ==
    (resp.op = "getBox" /\ resp.box \in DOMAIN boxes) =>
        /\ resp.status = 200
        /\ Live(resp.box) \subseteq DOMAIN ideas
        /\ resp.body =
             [kind |-> "box", ideas |-> {},
              boxes |-> {[id |-> resp.box,
                          title |-> boxes[resp.box].Title,
                          description |-> boxes[resp.box].Description,
                          ideas |-> {[id |-> i, title |-> ideas[i].Title,
                                      description |-> ideas[i].Description]
                                     : i \in Live(resp.box)}]}]

\* getBox answered with an idea while another box holds an idea too
GetBoxReturnsItsIdeasWitness ==
    /\ resp.op = "getBox"
    /\ resp.status = 200
    /\ \E b \in resp.body.boxes : b.ideas # {}
    /\ \E i \in DOMAIN ideas : ideas[i].BoxID # resp.box

\* C4: createBoxIdea with a non-empty title answers 404 "box not found" and
\* changes no table when the box is not stored; when it is stored, one idea
\* with a new id and BoxID = the box's id is inserted and the answer is 201.
CreateBoxIdeaNeedsBox ==
    [][(resp'.op = "createBoxIdea" /\ resp'.title # "") =>
         IF resp'.box \notin DOMAIN boxes
         THEN /\ resp'.status = 404
              /\ resp'.error = BoxNotFound
              /\ UNCHANGED store
         ELSE /\ resp'.status = 201
              /\ boxes' = boxes
              /\ \E id \in IdeaIDs \ DOMAIN ideas :
                   ideas' = Put(ideas, id,
                                [Title |-> resp'.title,
                                 Description |-> resp'.description,
                                 BoxID |-> resp'.box])]_vars

\* createBoxIdea answered 404 for a deleted box while ideas are stored
CreateBoxIdeaNeedsBoxWitness ==
    /\ resp.op = "createBoxIdea"
    /\ resp.title # ""
    /\ resp.status = 404
    /\ resp.box \in deleted
    /\ DOMAIN ideas # {}

\* C5: getBoxIdea, updateBoxIdea (valid body) and deleteBoxIdea of a stored
\* idea under a stored box that is not the idea's box answer 404 "idea not
\* found" and change no table.
IdeaOfOtherBoxNotFound ==
    [][(/\ resp'.op \in {"getBoxIdea", "updateBoxIdea", "deleteBoxIdea"}
        /\ resp'.op = "updateBoxIdea" => resp'.title # ""
        /\ resp'.box \in DOMAIN boxes
        /\ resp'.idea \in DOMAIN ideas
        /\ ideas[resp'.idea].BoxID # resp'.box) =>
            /\ resp'.status = 404
            /\ resp'.error = IdeaNotFound
            /\ UNCHANGED store]_vars

\* deleteBoxIdea of a stored idea under another stored box answered 404
IdeaOfOtherBoxNotFoundWitness ==
    /\ resp.op = "deleteBoxIdea"
    /\ resp.status = 404
    /\ resp.error = IdeaNotFound
    /\ resp.box \in DOMAIN boxes
    /\ resp.idea \in DOMAIN ideas
    /\ ideas[resp.idea].BoxID # resp.box

ErrorLeavesStoreUnchanged ==
    [][resp'.status \in {400, 404} => UNCHANGED store]_vars

\* C8: a box id deleteBox answered 204 for is never stored again, and every
\* later deleteBox of it answers 404 and changes no table.
DeletedBoxStaysDeleted ==
    /\ [](deleted \cap DOMAIN boxes = {})
    /\ [][(resp'.op = "deleteBox" /\ resp'.box \in deleted) =>
            (resp'.status = 404 /\ UNCHANGED store)]_vars

\* deleteBox of a deleted id answered 404 after every box id was handed out
DeletedBoxStaysDeletedWitness ==
    /\ resp.op = "deleteBox"
    /\ resp.status = 404
    /\ resp.box \in deleted
    /\ boxSeq = MaxBoxID
    /\ DOMAIN boxes # {}

\* C9: createBox answers 400 and inserts nothing exactly when the title is
\* empty; otherwise it inserts one box under an id no stored box has, answers
\* 201 with it and ideas = [], and a getBox of that id served next answers
\* 200 with the same box and no ideas.
CreateBoxValidatesAndPersists ==
    /\ [][resp'.op = "createBox" =>
            IF resp'.title = ""
            THEN resp'.status = 400 /\ UNCHANGED store
            ELSE /\ resp'.status = 201
                 /\ ideas' = ideas
                 /\ \E id \in BoxIDs \ DOMAIN boxes :
                      /\ boxes' = Put(boxes, id,
                                      [Title |-> resp'.title,
                                       Description |-> resp'.description])
                      /\ resp'.body =
                           [kind |-> "box", ideas |-> {},
                            boxes |-> {[id |-> id, title |-> resp'.title,
                                        description |-> resp'.description,
                                        ideas |-> {}]}]]_vars
    /\ [][(/\ resp.op = "createBox"
           /\ resp.status = 201
           /\ resp'.op = "getBox"
           /\ \E b \in resp.body.boxes : b.id = resp'.box) =>
            (resp'.status = 200 /\ resp'.body = resp.body)]_vars

\* createBox answered 201 with a second box, ideas being stored
CreateBoxValidatesAndPersistsWitness ==
    /\ resp.op = "createBox"
    /\ resp.status = 201
    /\ resp.description # ""
    /\ Cardinality(DOMAIN boxes) > 1
    /\ DOMAIN ideas # {}

\* C10: updateBox, createBoxIdea and updateBoxIdea with an empty title
\* answer 400, whether or not the box or idea they address is stored, and
\* change no table.
ValidationBeforeLookup ==
    [][(/\ resp'.op \in {"updateBox", "createBoxIdea", "updateBoxIdea"}
        /\ resp'.title = "") =>
            /\ resp'.status = 400
            /\ resp'.error = BindError
            /\ UNCHANGED store]_vars

\* updateBoxIdea with an empty title answered 400 for a box that is not
\* stored
ValidationBeforeLookupWitness ==
    /\ resp.op = "updateBoxIdea"
    /\ resp.title = ""
    /\ resp.status = 400
    /\ resp.box \notin DOMAIN boxes
    /\ DOMAIN boxes # {}

=============================================================================
